---- MODULE Spec2Model ----
(***************************************************************************)
(* Batch candidate-evaluation pipeline of App-Reviewer.                    *)
(*                                                                         *)
(* Specification Spec follows one request through either of the two        *)
(* orchestration paths of the backend:                                     *)
(*   - "route":   POST /evaluate-candidates (api/routes.py), which uses    *)
(*                CandidateProcessor.process_all_candidates and saves the  *)
(*                results in a loop afterwards;                            *)
(*   - "batched": CandidateProcessor.process_candidates_in_batches, which  *)
(*                saves inside every candidate task.                       *)
(* Both share the persistence store (tables evaluation_sessions and        *)
(* candidate_evaluations behind DatabaseService).  Every DatabaseService   *)
(* method wraps its store calls in try/except, so each call either takes   *)
(* effect or is swallowed; the model draws that per call.  The candidate   *)
(* tasks inside a request interleave at their suspension points (semaphore *)
(* acquire, collaborator I/O).                                             *)
(*                                                                         *)
(* Specifications SpecStore and SpecSessions are the two tables under the  *)
(* DatabaseService calls that requests issue, in any order and for any of  *)
(* the open sessions: the methods contain no await, so the calls of        *)
(* concurrent requests reach the store one at a time, in some order.       *)
(*                                                                         *)
(* Specification SpecDelete adds DELETE /sessions/{session_id} to the      *)
(* saves of SpecStore.  Specification SpecFair is Spec under a fair event  *)
(* loop, for the claims about termination.                                 *)
(*                                                                         *)
(* Specification SpecEvaluation is one call of                             *)
(* CandidateProcessor.create_comprehensive_evaluation: the candidate       *)
(* lookup, the CV and video sub-tasks of process_candidate_files (which    *)
(* interleave at their awaits), the criteria lookup and the classifier     *)
(* call of AIEvaluationService.evaluate_candidate, and the merge into the  *)
(* result, under every behaviour of the file store, the extraction         *)
(* primitives and the classifier.  A text is a sequence of fragments, so   *)
(* that "X in text" and concatenation are what they are in the code.       *)
(***************************************************************************)
EXTENDS Integers, Sequences, FiniteSets, TLC

(* ------------------------------ bounds --------------------------------- *)
\* rows of an uploaded table
MaxRows == 4
\* sessions opened in the specification of the store
MaxSessions == 2
\* store calls that fail (and are swallowed) while the client is usable
MaxStoreFailures == 1
\* record ids handed out before the last session delete
MaxRecordIds == 2

(* ------------------------- program constants --------------------------- *)
\* asyncio.Semaphore(3)
SemaphoreSize == 3

\* a blank / missing cell of the 'Email address' column (pandas NaN)
NaN == "NaN"
Emails == {"a@x.com", "b@x.com"}
Cells == Emails \cup {NaN}

\* verdicts the classifier can hand back; "Other" is any outcome string
\* outside Accepted / Rejected / Error
Outcomes == {"Accepted", "Rejected", "Error", "Other"}
\* ways one create_comprehensive_evaluation call can end
EvalBehaviours == Outcomes \cup {"raise"}

\* None for the optional integer arguments of update_session_progress
None == -1

VARIABLES
    clientAvailable,  \* DatabaseService.client is not None
    sessions,         \* table evaluation_sessions: set of rows
    evaluations,      \* table candidate_evaluations: set of rows
    nextSid,          \* uuid4() source for session ids
    nextId,           \* uuid4() source for evaluation ids
    path,             \* "none" | "route" | "batched"
    pc,               \* position of the current request
    data,             \* the uploaded table
    batch_size,       \* CandidateProcessor.batch_size
    session_id,       \* session id of the current request (0: none)
    emails,           \* data['Email address'].dropna().tolist()
    batch_idx,        \* loop variable of range(0, total, batch_size)
    batch_number,
    batch_emails,     \* the emails handed to asyncio.gather
    semaphore,        \* value of the asyncio.Semaphore
    task,             \* state of each gathered task
    results,          \* batch_results / results, by task
    processed_count, accepted_count, rejected_count, error_count,
    i_save,           \* loop index of the route's save loop
    saved_count,
    response,         \* last yielded batch event / final response
    attempts,         \* per table row: create_comprehensive_evaluation calls
    placed,           \* per table row: times the row was handed to gather
    persisted,        \* per task: outcomes passed to save_candidate_evaluation
    raised_count,     \* exceptions caught at a task boundary in this request
    log,              \* the progress updates issued and the events yielded, in order
    store_failures,   \* store calls that failed so far
    call,             \* SpecStore, SpecSessions: the DatabaseService call made last
    moved,            \* ids of the records that a save moved to another session
    epc,              \* position of create_comprehensive_evaluation
    candidate,        \* the row of the candidate (its cells that matter)
    criteria_ctx,     \* user_id, db_service and the user's active criteria row
    file_results,     \* the ProcessingResult of process_candidate_files
    cv_pc,            \* position of _process_cv
    video_pc,         \* position of _process_video
    temp_files,       \* temporary files on disk
    created_files,    \* temporary files ever created
    downloads,        \* artifacts download_file was called for
    failed,           \* fetch and extraction steps that failed, by step
    delete_calls,     \* the safe_delete_file calls made, with their attempts
    classifier_calls, \* criteria of every classifier invocation
    classifier_response, \* what the classifier call gave back
    evaluation_result,   \* what evaluate_candidate returned
    comprehensive_result \* what create_comprehensive_evaluation returned

storeVars == <<sessions, evaluations, nextSid, nextId>>
reqVars   == <<path, data, batch_size, session_id, emails>>
loopVars  == <<batch_idx, batch_number, batch_emails>>
taskVars  == <<semaphore, task, results>>
countVars == <<processed_count, accepted_count, rejected_count, error_count>>
routeVars == <<i_save, saved_count>>
ghostVars == <<attempts, placed, persisted, raised_count>>
fileVars  == <<file_results, cv_pc, video_pc, temp_files, created_files, downloads, failed, delete_calls>>
aiVars    == <<classifier_calls, classifier_response, evaluation_result>>
evalVars  == <<epc, candidate, criteria_ctx, fileVars, aiVars, comprehensive_result>>
vars == <<clientAvailable, storeVars, reqVars, pc, loopVars, taskVars,
          countVars, routeVars, response, ghostVars, log, store_failures, call, moved, evalVars>>

(* ------------------------------ helpers -------------------------------- *)
Min(a, b) == IF a < b THEN a ELSE b

\* the applicant behind row k: two applicants fill in the form in turn
EmailOfRow(k) == IF k % 2 = 1 THEN "a@x.com" ELSE "b@x.com"

\* all tables of at most n rows; a row is its 'Email address' cell, which
\* holds the applicant's email or is blank (so that <<a, b>>, <<a, NaN, a>>,
\* <<NaN, b>>, ... are all drawn: distinct emails, repeated emails, blanks)
Tables(n) == UNION {{t \in [1..k -> Cells] : \A i \in 1..k : t[i] \in {NaN, EmailOfRow(i)}} : k \in 0..n}

\* an uploaded file as pandas sees it
Unparsable == [kind |-> "unparsable", rows |-> <<>>]
NoColumn(t) == [kind |-> "nocolumn", rows |-> t]
Table(t) == [kind |-> "table", rows |-> t]

\* a list element keeps the index of the table row it came from
Tagged(rows) == [k \in 1..Len(rows) |-> [row |-> k, email |-> rows[k]]]
NotNa(x) == x.email # NaN
\* data['Email address'].dropna().tolist()
DropNa(rows) == SelectSeq(Tagged(rows), NotNa)

\* a slice that runs one element into the next batch
Slice_Overlapping(list, start, size) == SubSeq(list, start + 1, Min(start + size + 1, Len(list)))

\* emails[batch_idx:batch_idx + batch_size]
Slice(list, start, size) == SubSeq(list, start + 1, Min(start + size, Len(list)))

NoResult == [email |-> "", error |-> FALSE, outcome |-> "pending"]
NoCall == [op |-> "none", session_id |-> 0, email |-> "", outcome |-> "", ok |-> TRUE, candidates_ok |-> TRUE, existing |-> [id |-> 0, session_id |-> 0, email |-> "", outcome |-> ""]]
NoResponse == [kind |-> "none", total_processed |-> 0, accepted |-> 0,
               rejected |-> 0, errors |-> 0]

(* ----------------------- persistence store ----------------------------- *)
\* a session row inserted as pending
SessionRow_Pending(sid) ==
    [id |-> sid, status |-> "pending", total_candidates |-> 0,
     processed_candidates |-> 0, accepted_count |-> 0, rejected_count |-> 0,
     error_count |-> 0, current_batch |-> 0, progress_percentage |-> 0,
     completed_at |-> FALSE]

\* a fresh row of evaluation_sessions (column defaults of EvaluationSession)
SessionRow(sid) ==
    [id |-> sid, status |-> "processing", total_candidates |-> 0,
     processed_candidates |-> 0, accepted_count |-> 0, rejected_count |-> 0,
     error_count |-> 0, current_batch |-> 0, progress_percentage |-> 0,
     completed_at |-> FALSE]

\* DatabaseService.create_evaluation_session: the insert, or (store error,
\* swallowed) nothing; either way the caller gets an id
create_evaluation_session(S, sid, ok) ==
    IF ok THEN S \cup {SessionRow(sid)} ELSE S

\* integer part of (processed / total) * 100
Percentage(processed, total) == (processed * 100) \div total

\* the keyword arguments of update_session_progress that a caller leaves out
NoUpdate == [processed |-> None, accepted |-> None, rejected |-> None, errors |-> None, batch |-> None, total |-> None, status |-> ""]

\* the update_data dict of update_session_progress applied to one row
ApplyProgress(s, u) ==
    [s EXCEPT
       !.processed_candidates = IF u.processed # None THEN u.processed ELSE @,
       !.accepted_count = IF u.accepted # None THEN u.accepted ELSE @,
       !.rejected_count = IF u.rejected # None THEN u.rejected ELSE @,
       !.error_count = IF u.errors # None THEN u.errors ELSE @,
       !.current_batch = IF u.batch # None THEN u.batch ELSE @,
       !.total_candidates = IF u.total # None THEN u.total ELSE @,
       !.status = IF u.status # "" THEN u.status ELSE @,
       !.progress_percentage =
           IF u.total # None /\ u.total # 0 /\ u.processed # None /\ u.processed # 0
           THEN Percentage(u.processed, u.total) ELSE @]

\* DatabaseService.update_session_progress
update_session_progress(S, sid, u, ok) ==
    IF ok
    THEN {IF s.id = sid THEN ApplyProgress(s, u) ELSE s : s \in S}
    ELSE S

\* a completion that marks a run whose candidates all ended in error as failed
complete_session_FailsOnErrors(S, sid, summary, ok) ==
    IF ok
    THEN {IF s.id = sid
          THEN [s EXCEPT !.status = IF summary.errors = summary.total_processed THEN "failed" ELSE "completed",
                         !.completed_at = TRUE,
                         !.total_candidates = summary.total_processed,
                         !.processed_candidates = summary.total_processed,
                         !.accepted_count = summary.accepted,
                         !.rejected_count = summary.rejected,
                         !.error_count = summary.errors,
                         !.progress_percentage = 100]
          ELSE s : s \in S}
    ELSE S

\* DatabaseService.complete_session
complete_session(S, sid, summary, ok) ==
    IF ok
    THEN {IF s.id = sid
          THEN [s EXCEPT !.status = "completed",
                         !.completed_at = TRUE,
                         !.total_candidates = summary.total_processed,
                         !.processed_candidates = summary.total_processed,
                         !.accepted_count = summary.accepted,
                         !.rejected_count = summary.rejected,
                         !.error_count = summary.errors,
                         !.progress_percentage = 100]
          ELSE s : s \in S}
    ELSE S

\* CandidateProcessor._convert_to_db_format: result.get("outcome", "Error")
convert_to_db_format(result) ==
    [email |-> result.email,
     outcome |-> IF result.outcome = "absent" THEN "Error" ELSE result.outcome]

\* select("id, session_id").eq("email", candidate_email)
ExistingByEmail(E, email) == {r \in E : r.email = email}

\* an update that leaves the record with the session it had
UpdateEvaluation_KeepsSession(E, existing_id, sid, db_data) ==
    {IF r.id = existing_id
     THEN [r EXCEPT !.outcome = db_data.outcome, !.email = db_data.email]
     ELSE r : r \in E}

\* the update branch of save_candidate_evaluation: .update(cleaned_data).eq("id", existing_id)
UpdateEvaluation(E, existing_id, sid, db_data) ==
    {IF r.id = existing_id
     THEN [r EXCEPT !.session_id = sid, !.outcome = db_data.outcome,
                    !.email = db_data.email]
     ELSE r : r \in E}

\* the insert branch of save_candidate_evaluation
InsertEvaluation(E, new_id, sid, db_data) ==
    E \cup {[id |-> new_id, session_id |-> sid, email |-> db_data.email,
             outcome |-> db_data.outcome]}

\* "no row" for existing_result.data
NoRecord == [id |-> 0, session_id |-> 0, email |-> "", outcome |-> ""]

\* a select whose answer may date from before another task's insert
Selected_Stale(E, email) == {NoRecord} \cup ExistingByEmail(E, email)

\* existing_result.data[0]: a row with that email, if the select returns any
Selected(E, email) == IF ExistingByEmail(E, email) = {} THEN {NoRecord} ELSE ExistingByEmail(E, email)

\* a save that inserts whatever its select found
save_candidate_evaluation_AlwaysInsert(E, n, sid, db_data, existing, ok, E2, n2) ==
    IF ~ok
    THEN E2 = E /\ n2 = n
    ELSE E2 = InsertEvaluation(E, n, sid, db_data) /\ n2 = n + 1

\* DatabaseService.save_candidate_evaluation as a relation between the table
\* before and after (E2) and the uuid source before and after (n2); existing
\* is the row its select found; a store error (ok false) is swallowed
save_candidate_evaluation(E, n, sid, db_data, existing, ok, E2, n2) ==
    IF ~ok
    THEN E2 = E /\ n2 = n
    ELSE IF existing # NoRecord
         THEN E2 = UpdateEvaluation(E, existing.id, sid, db_data) /\ n2 = n
         ELSE E2 = InsertEvaluation(E, n, sid, db_data) /\ n2 = n + 1

(* ------------------ one candidate's evaluation: data ------------------- *)
\* what a 'Curriculum vitae ' or video cell can hold: nothing, text that is
\* no Drive link, or a Drive link in one of the forms extract_file_id knows
PlainText == "sent by post"
FileLink == "https://drive.google.com/file/d/abc/view"
OpenLink == "https://drive.google.com/open?id=abc"
DriveLinks == {FileLink, OpenLink}
References == {NaN, PlainText} \cup DriveLinks

\* None as a file id
NoFileId == ""

\* a parse that takes any text for a file id
extract_file_id_AnyText(drive_url) ==
    IF drive_url = NaN THEN NoFileId ELSE "abc"

\* GoogleDriveService.extract_file_id: the first pattern that matches
extract_file_id(drive_url) ==
    IF drive_url = NaN THEN NoFileId
    ELSE IF drive_url = FileLink THEN "abc"
    ELSE IF drive_url = OpenLink THEN "abc"
    ELSE NoFileId

\* the candidate the evaluation is asked for
TheEmail == "a@x.com"

\* data[data['Email address'] == email] is empty
NoCandidate == [found |-> FALSE, name |-> NaN, cv_url |-> NaN, video_url |-> NaN]

\* the rows an evaluation can meet
Candidates ==
    {NoCandidate} \cup
    [found : {TRUE}, name : {"Doe Jane", NaN}, cv_url : References, video_url : References]

\* a test that never finds the fragment
Contains_Never(text, fragment) == FALSE

\* "fragment in text"
Contains(text, fragment) == \E i \in DOMAIN text : text[i] = fragment

\* the strings the extraction primitives return when they fail
PdfError == <<"Error extracting PDF", "pdf failure">>
DocxError == <<"Error extracting DOCX", "docx failure">>
RenameError == <<"Error processing as DOCX", "rename failure">>
TranscribeError == <<"Error transcribing video", "whisper failure">>

\* what the extraction primitives can return
PdfOutcomes == {<<>>, <<"pdf text">>, PdfError}
DocxOutcomes == {<<"docx text">>, DocxError}
TranscribeOutcomes == {<<"transcript">>, TranscribeError}

\* ProcessingResult(email, name): cv_text = "", video_transcript = "", errors = []
NewProcessingResult == [cv_text |-> <<>>, video_transcript |-> <<>>, errors |-> <<>>]
NoFileResults == NewProcessingResult

\* max_attempts of FileProcessor.safe_delete_file
MaxAttempts == 3

\* the PermissionErrors that os.unlink raises in a row before it goes through
Denials == 0..MaxAttempts

\* FileProcessor.safe_delete_file: the file is gone unless every attempt
\* met a PermissionError
safe_delete_file(files, file_path, denials) ==
    IF denials >= MaxAttempts THEN files ELSE files \ {file_path}

\* a retry loop that goes on until os.unlink goes through
UnlinkAttempts_Unbounded(files, file_path, denials) ==
    IF file_path \notin files THEN 0 ELSE denials + 1

\* the os.unlink calls of one safe_delete_file: none when the path does not
\* exist, else one per PermissionError up to max_attempts
UnlinkAttempts(files, file_path, denials) ==
    IF file_path \notin files THEN 0 ELSE Min(denials + 1, MaxAttempts)

\* a row of user_criteria as the store client returns it (a dict), or None
NoCriteria == [present |-> FALSE, content |-> ""]
CriteriaRows == {NoCriteria, [present |-> TRUE, content |-> "override"], [present |-> TRUE, content |-> ""]}

\* user_id, db_service and what get_active_criteria returns for the user
Contexts == [user_id : {"", "u1"}, db_service : BOOLEAN, active : CriteriaRows]
NoContext == [user_id |-> "", db_service |-> FALSE, active |-> NoCriteria]

\* settings.ELIGIBILITY_CRITERIA
DefaultCriteria == "default"

\* AIEvaluationService._get_user_criteria: "criteria.content" on the dict
\* that get_active_criteria returns raises AttributeError
get_user_criteria(ctx, available) ==
    IF ctx.user_id # "" /\ ctx.db_service /\ available /\ ctx.active.present
    THEN [raised |-> TRUE, criteria |-> ""]
    ELSE [raised |-> FALSE, criteria |-> DefaultCriteria]

\* the keys of a verdict
VerdictKeys == {"outcome", "score", "rationale"}

\* a JSON value: an object with some of the verdict keys, or no object
JsonObject(keys, outcome, score, rationale) ==
    [kind |-> "object", keys |-> keys, outcome |-> outcome, score |-> score, rationale |-> rationale]

\* what the classifier call can give: a transport failure, text that is
\* no JSON, JSON that is no object, an object with any of the verdict keys
Transport == [kind |-> "transport", keys |-> {}, outcome |-> "", score |-> 0, rationale |-> <<>>]
NotJson == [kind |-> "notjson", keys |-> {}, outcome |-> "", score |-> 0, rationale |-> <<>>]
NonObject == [kind |-> "nonobject", keys |-> {}, outcome |-> "", score |-> 0, rationale |-> <<>>]
Responses ==
    {Transport, NotJson, NonObject} \cup
    {JsonObject(keys, outcome, 85, <<"because">>) : keys \in SUBSET VerdictKeys, outcome \in Outcomes}

NoClassifierResponse == [kind |-> "none", keys |-> {}, outcome |-> "", score |-> 0, rationale |-> <<>>]
NoEvaluationResult == NoClassifierResponse

\* the synthetic verdicts of evaluate_candidate's except branches
ParseFailure == JsonObject(VerdictKeys, "Error", 0, <<"Failed to parse AI evaluation">>)
EvaluationError(reason) == JsonObject(VerdictKeys, "Error", 0, <<"Evaluation error", reason>>)

\* AIEvaluationService.evaluate_candidate, given the criteria lookup and
\* the classifier's response: json.loads(result) or an except branch
evaluate_candidate(crit, resp) ==
    IF crit.raised THEN EvaluationError("'dict' object has no attribute 'content'")
    ELSE IF resp.kind = "transport" THEN EvaluationError("transport failure")
    ELSE IF resp.kind = "notjson" THEN ParseFailure
    ELSE resp

\* dict.get(key, default)
Get(obj, key, default) == IF key \in obj.keys THEN obj[key] ELSE default

\* comprehensive_result (candidate_processor.py 373-422)
Merged(verdict, files) ==
    [email |-> TheEmail, error |-> FALSE,
     outcome |-> Get(verdict, "outcome", "Error"),
     score |-> Get(verdict, "score", 0),
     rationale |-> Get(verdict, "rationale", <<"No rationale provided">>),
     cv_text |-> files.cv_text,
     video_transcript |-> files.video_transcript,
     processing_errors |-> files.errors,
     files_processed_successfully |-> (Len(files.errors) = 0)]

\* {"error": ..., "email": email}
NotFoundResult ==
    [email |-> TheEmail, error |-> TRUE, outcome |-> "absent", score |-> 0,
     rationale |-> <<>>, cv_text |-> <<>>, video_transcript |-> <<>>,
     processing_errors |-> <<>>, files_processed_successfully |-> FALSE]

NoEvaluation == [NotFoundResult EXCEPT !.email = "", !.error = FALSE]

(* --------------------------- initial state ----------------------------- *)
\* outcome of one store call: the client may be unusable for the whole
\* process (every call raises and is swallowed) or fail call by call
DbOk ==
    IF ~clientAvailable THEN {FALSE}
    ELSE IF store_failures < MaxStoreFailures THEN BOOLEAN ELSE {TRUE}

\* the count of failed store calls after a call that went ok or not
Failures(ok) == IF ok \/ ~clientAvailable THEN store_failures ELSE store_failures + 1

Init ==
    /\ clientAvailable \in BOOLEAN
    /\ sessions = {}
    /\ evaluations = {}
    /\ nextSid = 1
    /\ nextId = 1
    /\ path = "none"
    /\ pc = "idle"
    /\ data = Table(<<>>)
    /\ batch_size = 1
    /\ session_id = 0
    /\ emails = <<>>
    /\ batch_idx = 0
    /\ batch_number = 0
    /\ batch_emails = <<>>
    /\ semaphore = SemaphoreSize
    /\ task = <<>>
    /\ results = <<>>
    /\ processed_count = 0
    /\ accepted_count = 0
    /\ rejected_count = 0
    /\ error_count = 0
    /\ i_save = 0
    /\ saved_count = 0
    /\ response = NoResponse
    /\ attempts = <<>>
    /\ placed = <<>>
    /\ persisted = <<>>
    /\ raised_count = 0
    /\ log = <<>>
    /\ store_failures = 0
    /\ call = NoCall
    /\ moved = {}
    /\ epc = "idle"
    /\ candidate = NoCandidate
    /\ criteria_ctx = NoContext
    /\ file_results = NoFileResults
    /\ cv_pc = "idle"
    /\ video_pc = "idle"
    /\ temp_files = {}
    /\ created_files = {}
    /\ downloads = {}
    /\ failed = {}
    /\ delete_calls = {}
    /\ classifier_calls = <<>>
    /\ classifier_response = NoClassifierResponse
    /\ evaluation_result = NoEvaluationResult
    /\ comprehensive_result = NoEvaluation

\* the locals of a request that has just been received
FreshLocals ==
    /\ data' = Table(<<>>)
    /\ emails' = <<>>
    /\ batch_idx' = 0
    /\ batch_number' = 0
    /\ batch_emails' = <<>>
    /\ semaphore' = SemaphoreSize
    /\ task' = <<>>
    /\ results' = <<>>
    /\ processed_count' = 0
    /\ accepted_count' = 0
    /\ rejected_count' = 0
    /\ error_count' = 0
    /\ i_save' = 0
    /\ saved_count' = 0
    /\ response' = NoResponse
    /\ attempts' = <<>>
    /\ placed' = <<>>
    /\ persisted' = <<>>
    /\ raised_count' = 0
    /\ log' = <<>>

\* the locals of process_candidates_in_batches at line 190
FreshBatchLocals ==
    /\ batch_idx' = 0
    /\ batch_number' = 0
    /\ batch_emails' = <<>>
    /\ semaphore' = SemaphoreSize
    /\ task' = <<>>
    /\ results' = <<>>
    /\ processed_count' = 0
    /\ accepted_count' = 0
    /\ rejected_count' = 0
    /\ error_count' = 0
    /\ i_save' = 0
    /\ saved_count' = 0
    /\ response' = NoResponse
    /\ persisted' = <<>>
    /\ raised_count' = 0
    /\ log' = <<>>

\* the task list handed to asyncio.gather, every task not yet started
Gathered(list, before) ==
    /\ batch_emails' = list
    /\ semaphore' = SemaphoreSize
    /\ task' = [j \in 1..Len(list) |-> "waiting"]
    /\ results' = [j \in 1..Len(list) |-> NoResult]
    /\ persisted' = [j \in 1..Len(list) |-> <<>>]
    /\ placed' = [k \in DOMAIN before |-> before[k] + Cardinality({j \in 1..Len(list) : list[j].row = k})]

\* a join that returns with the first task that ends
AllDone_FirstDone == \E j \in DOMAIN task : task[j] = "done"

\* asyncio.gather has returned: every task of the batch has ended
AllDone == \A j \in DOMAIN task : task[j] = "done"

(* ------------------- POST /evaluate-candidates (route) ----------------- *)
\* routes.py 53-107: validation of the form fields, then the session
evaluate_candidates_entry ==
    /\ pc = "idle"
    /\ path' = "route"
    /\ batch_size' = batch_size
    /\ FreshLocals
    /\ UNCHANGED <<evalVars, call, moved, clientAvailable, evaluations, nextId>>
    /\ \E valid \in BOOLEAN, ok \in DbOk :
         IF ~valid \/ ~clientAvailable
         THEN /\ pc' = "rejected"
              /\ session_id' = 0
              /\ UNCHANGED <<sessions, nextSid, store_failures>>
         ELSE /\ pc' = "read"
              /\ session_id' = nextSid
              /\ nextSid' = nextSid + 1
              /\ sessions' = create_evaluation_session(sessions, nextSid, ok)
              /\ store_failures' = Failures(ok)

\* the uploads a request can carry
Uploads(maxrows) == {Unparsable, NoColumn(<<>>)} \cup {Table(t) : t \in Tables(maxrows)}

\* a check that lets a table without any email through
Rejected_IgnoresBlankEmails(csv) ==
    \/ csv.kind = "unparsable"
    \/ csv.rows = <<>>
    \/ csv.kind = "nocolumn"

\* routes.py 130-145: the checks that reject a parsed table
Rejected(csv) ==
    \/ csv.kind = "unparsable"
    \/ csv.rows = <<>>
    \/ csv.kind = "nocolumn"
    \/ DropNa(csv.rows) = <<>>

\* routes.py 109-164: read and parse the upload, reject it or start
\* process_all_candidates (candidate_processor.py 433-451)
evaluate_candidates_parse(maxrows) ==
    /\ pc = "read"
    /\ \E csv \in Uploads(maxrows), ok \in DbOk :
         /\ data' = csv
         /\ IF Rejected(csv)
            THEN /\ pc' = "rejected"
                 /\ UNCHANGED <<sessions, emails, batch_emails, taskVars, attempts, placed, persisted, store_failures>>
            ELSE /\ pc' = "gather"
                 /\ emails' = DropNa(csv.rows)
                 /\ sessions' = update_session_progress(sessions, session_id, [NoUpdate EXCEPT !.total = Len(DropNa(csv.rows))], ok)
                 /\ store_failures' = Failures(ok)
                 /\ attempts' = [k \in 1..Len(csv.rows) |-> 0]
                 /\ Gathered(DropNa(csv.rows), [k \in 1..Len(csv.rows) |-> 0])
    /\ UNCHANGED <<evalVars, call, moved, log, clientAvailable, evaluations, nextSid, nextId, path, batch_size, session_id>>
    /\ UNCHANGED <<batch_idx, batch_number, countVars, routeVars, response, raised_count>>

(* --------------------------- candidate tasks --------------------------- *)
\* a semaphore that never blocks
CanAcquire_Unbounded(value) == TRUE

\* asyncio.Semaphore: acquire goes through only while the value is positive
CanAcquire(value) == value > 0

\* an exit that keeps the permit when the body raised
Release_KeepsOnRaise(value, raised) == IF raised THEN value ELSE value + 1

\* the exit of "async with semaphore": the permit goes back whether the
\* body returned or raised
Release(value, raised) == value + 1

\* the tasks of a gather reach the semaphore in list order and its waiters
\* are woken first-in first-out: j is next when no earlier task still waits
NextInLine(j) == \A k \in 1..(j - 1) : task[k] # "waiting"

\* "async with semaphore" entered by task j, which then calls
\* create_comprehensive_evaluation (candidate_processor.py 204-207, 436-439)
Acquire(j) ==
    /\ pc = "gather"
    /\ task[j] = "waiting"
    /\ NextInLine(j)
    /\ CanAcquire(semaphore)
    /\ semaphore' = semaphore - 1
    /\ task' = [task EXCEPT ![j] = "running"]
    /\ attempts' = [attempts EXCEPT ![batch_emails[j].row] = @ + 1]
    /\ UNCHANGED <<evalVars, call, moved, log, clientAvailable, storeVars, reqVars, pc, loopVars, results, store_failures>>
    /\ UNCHANGED <<countVars, routeVars, response, placed, persisted, raised_count>>

\* what process_with_semaphore of process_all_candidates returns
RouteResult(email, beh) ==
    IF beh = "raise"
    THEN [email |-> email, error |-> TRUE, outcome |-> "absent"]
    ELSE [email |-> email, error |-> FALSE, outcome |-> beh]

\* process_all_candidates.process_with_semaphore (candidate_processor.py
\* 435-444): the evaluation of task j ends, the permit is released
FinishRoute(j) ==
    /\ pc = "gather"
    /\ path = "route"
    /\ task[j] = "running"
    /\ \E beh \in EvalBehaviours :
         /\ results' = [results EXCEPT ![j] = RouteResult(batch_emails[j].email, beh)]
         /\ raised_count' = raised_count + (IF beh = "raise" THEN 1 ELSE 0)
         /\ semaphore' = Release(semaphore, beh = "raise")
    /\ task' = [task EXCEPT ![j] = "done"]
    /\ UNCHANGED <<evalVars, call, moved, log, clientAvailable, storeVars, reqVars, pc, loopVars, store_failures>>
    /\ UNCHANGED <<countVars, routeVars, response, attempts, placed, persisted>>

\* what process_with_semaphore of process_candidates_in_batches returns
BatchedResult(email, beh) ==
    IF beh = "raise"
    THEN [email |-> email, error |-> TRUE, outcome |-> "Error"]
    ELSE [email |-> email, error |-> FALSE, outcome |-> beh]

\* a save whose failure reaches the task's except branch
ReturnedAfterSave_Propagates(result, ok) ==
    IF ok THEN result ELSE [result EXCEPT !.error = TRUE, !.outcome = "Error"]

\* "await db_service.save_candidate_evaluation(...); return result"
\* (candidate_processor.py 211-214, 227-228): the save returns an id
\* whether the store took it or not, and the task returns its result
ReturnedAfterSave(result, ok) == result

\* process_candidates_in_batches.process_with_semaphore
\* (candidate_processor.py 203-228): the evaluation of task j ends, its
\* result or its error result is saved, the permit is released
FinishBatched(j) ==
    /\ pc = "gather"
    /\ path = "batched"
    /\ task[j] = "running"
    /\ \E beh \in EvalBehaviours, ok \in DbOk, existing \in Selected(evaluations, batch_emails[j].email) :
         /\ results' = [results EXCEPT ![j] = ReturnedAfterSave(BatchedResult(batch_emails[j].email, beh), ok)]
         /\ raised_count' = raised_count + (IF beh = "raise" THEN 1 ELSE 0)
         /\ save_candidate_evaluation(evaluations, nextId, session_id, convert_to_db_format(BatchedResult(batch_emails[j].email, beh)), existing, ok, evaluations', nextId')
         /\ persisted' = [persisted EXCEPT ![j] = Append(@, convert_to_db_format(BatchedResult(batch_emails[j].email, beh)).outcome)]
         /\ store_failures' = Failures(ok)
         /\ semaphore' = Release(semaphore, beh = "raise")
    /\ task' = [task EXCEPT ![j] = "done"]
    /\ UNCHANGED <<evalVars, call, moved, log, clientAvailable, sessions, nextSid, reqVars, pc, loopVars>>
    /\ UNCHANGED <<countVars, routeVars, response, attempts, placed>>

(* ------------------------ route: after the gather ---------------------- *)
\* candidate_processor.py 451-461 and routes.py 166-170
evaluate_candidates_gathered ==
    /\ pc = "gather"
    /\ path = "route"
    /\ AllDone
    /\ pc' = "saving"
    /\ i_save' = 1
    /\ saved_count' = 0
    /\ UNCHANGED <<evalVars, call, moved, log, clientAvailable, storeVars, reqVars, loopVars, taskVars, store_failures>>
    /\ UNCHANGED <<countVars, response, ghostVars>>

\* routes.py 175: "if not result.get('error')"
ShouldSave(result) == ~result.error

\* routes.py 171-182: one turn of the save loop
evaluate_candidates_save ==
    /\ pc = "saving"
    /\ i_save <= Len(results)
    /\ i_save' = i_save + 1
    /\ IF ShouldSave(results[i_save])
       THEN \E ok \in DbOk, existing \in Selected(evaluations, results[i_save].email) :
              /\ save_candidate_evaluation(evaluations, nextId, session_id, convert_to_db_format(results[i_save]), existing, ok, evaluations', nextId')
              /\ persisted' = [persisted EXCEPT ![i_save] = Append(@, convert_to_db_format(results[i_save]).outcome)]
              /\ saved_count' = saved_count + 1
              /\ store_failures' = Failures(ok)
       ELSE UNCHANGED <<evaluations, nextId, persisted, saved_count, store_failures>>
    /\ UNCHANGED <<evalVars, call, moved, log, clientAvailable, sessions, nextSid, reqVars, pc, loopVars, taskVars>>
    /\ UNCHANGED <<countVars, response, attempts, placed, raised_count>>

IsAccepted(r) == r.outcome = "Accepted"
IsRejected(r) == r.outcome = "Rejected"
HasErrorKey(r) == r.error

\* routes.py 187-198; sum(1 for r in results if ...) counts list positions
RouteSummary(res) ==
    [kind |-> "final", total_processed |-> Len(res),
     accepted |-> Cardinality({j \in DOMAIN res : IsAccepted(res[j])}),
     rejected |-> Cardinality({j \in DOMAIN res : IsRejected(res[j])}),
     errors |-> Cardinality({j \in DOMAIN res : HasErrorKey(res[j])})]

\* routes.py 187-210: summary, complete_session, the response
evaluate_candidates_complete ==
    /\ pc = "saving"
    /\ i_save > Len(results)
    /\ \E ok \in DbOk :
         /\ sessions' = complete_session(sessions, session_id, RouteSummary(results), ok)
         /\ store_failures' = Failures(ok)
    /\ response' = RouteSummary(results)
    /\ pc' = "returned"
    /\ UNCHANGED <<evalVars, call, moved, log, clientAvailable, evaluations, nextSid, nextId, reqVars, loopVars, taskVars>>
    /\ UNCHANGED <<countVars, routeVars, ghostVars>>

(* ------------------- process_candidates_in_batches --------------------- *)
\* candidate_processor.py 175-190, on a session its caller created with
\* create_evaluation_session
process_candidates_in_batches(maxrows) ==
    /\ pc = "idle"
    /\ path' = "batched"
    /\ FreshBatchLocals
    /\ \E t \in Tables(maxrows), bs \in 1..maxrows, ok \in DbOk :
         /\ data' = Table(t)
         /\ batch_size' = bs
         /\ emails' = DropNa(t)
         /\ attempts' = [k \in 1..Len(t) |-> 0]
         /\ placed' = [k \in 1..Len(t) |-> 0]
         /\ sessions' = create_evaluation_session(sessions, nextSid, ok)
         /\ store_failures' = Failures(ok)
    /\ session_id' = nextSid
    /\ nextSid' = nextSid + 1
    /\ pc' = "loop"
    /\ UNCHANGED <<evalVars, call, moved, clientAvailable, evaluations, nextId>>

\* a numbering of the batches from 0
BatchNumber_FromZero(idx, size) == idx \div size

\* (batch_idx // self.batch_size) + 1
BatchNumber(idx, size) == (idx \div size) + 1

\* candidate_processor.py 193-201, 230: the next batch is cut and gathered
BatchBegin ==
    /\ pc = "loop"
    /\ batch_idx < Len(emails)
    /\ batch_number' = BatchNumber(batch_idx, batch_size)
    /\ Gathered(Slice(emails, batch_idx, batch_size), placed)
    /\ pc' = "gather"
    /\ UNCHANGED <<evalVars, call, moved, log, clientAvailable, storeVars, reqVars, batch_idx, store_failures>>
    /\ UNCHANGED <<countVars, routeVars, response, attempts, raised_count>>

\* candidate_processor.py 238-243: the counter one result goes to
CountsAs(r) ==
    IF r.error \/ r.outcome = "Error" THEN "error"
    ELSE IF r.outcome = "Accepted" THEN "accepted"
    ELSE IF r.outcome = "Rejected" THEN "rejected"
    ELSE "none"

Counted(res, c) == Cardinality({j \in DOMAIN res : CountsAs(res[j]) = c})

\* candidate_processor.py 231-250: the gather returns, the counters are
\* updated and the session progress is written
BatchCount ==
    /\ pc = "gather"
    /\ path = "batched"
    /\ AllDone
    /\ error_count' = error_count + Counted(results, "error")
    /\ accepted_count' = accepted_count + Counted(results, "accepted")
    /\ rejected_count' = rejected_count + Counted(results, "rejected")
    /\ processed_count' = processed_count + Len(results)
    /\ \E ok \in DbOk :
         /\ sessions' = update_session_progress(sessions, session_id, [NoUpdate EXCEPT !.processed = processed_count', !.accepted = accepted_count', !.rejected = rejected_count', !.errors = error_count', !.batch = batch_number], ok)
         /\ store_failures' = Failures(ok)
    /\ log' = Append(log, [kind |-> "progress", batch |-> batch_number, processed |-> processed_count'])
    /\ pc' = "yield"
    /\ UNCHANGED <<evalVars, call, moved, clientAvailable, evaluations, nextSid, nextId, reqVars, loopVars, taskVars>>
    /\ UNCHANGED <<routeVars, response, ghostVars>>

\* candidate_processor.py 257-269: the yielded batch event
BatchEvent ==
    [kind |-> "batch", total_processed |-> processed_count,
     accepted |-> accepted_count, rejected |-> rejected_count,
     errors |-> error_count]

\* candidate_processor.py 252-274 and the loop step of line 193
BatchYield ==
    /\ pc = "yield"
    /\ response' = BatchEvent
    /\ log' = Append(log, [kind |-> "event", batch |-> batch_number, processed |-> processed_count])
    /\ batch_idx' = batch_idx + batch_size
    /\ pc' = "loop"
    /\ UNCHANGED <<evalVars, call, moved, clientAvailable, storeVars, reqVars, batch_number, batch_emails, taskVars, store_failures>>
    /\ UNCHANGED <<countVars, routeVars, ghostVars>>

\* candidate_processor.py 193: range(0, total_candidates, batch_size) is exhausted
BatchesDone ==
    /\ pc = "loop"
    /\ batch_idx >= Len(emails)
    /\ pc' = "done"
    /\ UNCHANGED <<evalVars, call, moved, log, clientAvailable, storeVars, reqVars, loopVars, taskVars, store_failures>>
    /\ UNCHANGED <<countVars, routeVars, response, ghostVars>>

(* ------------- the store under the calls of any requests --------------- *)
\* ids handed out by create_evaluation_session so far (with or without a row)
OpenSessions == 1..(nextSid - 1)

\* the request locals, which the calls on the store leave alone
requestState == <<reqVars, pc, loopVars, taskVars, countVars, routeVars, response, ghostVars, log, evalVars>>

\* the records moved so far, after a save that found existing under
\* another session id and wrote its own (database_service.py 226-228)
Moved(ids, existing, sid, ok) ==
    IF ok /\ existing # NoRecord /\ existing.session_id # sid
    THEN ids \cup {existing.id}
    ELSE ids

\* a request opens its session (routes.py 95)
create_session_call ==
    /\ nextSid <= MaxSessions
    /\ \E ok \in DbOk :
         /\ sessions' = create_evaluation_session(sessions, nextSid, ok)
         /\ store_failures' = Failures(ok)
         /\ call' = [NoCall EXCEPT !.op = "create", !.session_id = nextSid, !.ok = ok]
    /\ nextSid' = nextSid + 1
    /\ UNCHANGED <<clientAvailable, evaluations, nextId, moved, requestState>>

\* a candidate task or the route's save loop saves one evaluation
\* (candidate_processor.py 211, 227; routes.py 178)
save_call ==
    /\ \E sid \in OpenSessions, email \in Emails, outcome \in Outcomes, ok \in DbOk :
         \E existing \in Selected(evaluations, email) :
           /\ save_candidate_evaluation(evaluations, nextId, sid, [email |-> email, outcome |-> outcome], existing, ok, evaluations', nextId')
           /\ store_failures' = Failures(ok)
           /\ moved' = Moved(moved, existing, sid, ok)
           /\ call' = [NoCall EXCEPT !.op = "save", !.session_id = sid, !.email = email, !.outcome = outcome, !.ok = ok, !.existing = existing]
    /\ UNCHANGED <<clientAvailable, sessions, nextSid, requestState>>

\* the keyword arguments the callers of update_session_progress pass:
\* the candidate count (routes.py 153-156) or the counters after a batch
\* (candidate_processor.py 248-250)
ProgressArgs ==
    {[NoUpdate EXCEPT !.total = n] : n \in 1..2} \cup
    {[NoUpdate EXCEPT !.processed = 1, !.accepted = a, !.rejected = 1 - a, !.errors = 0, !.batch = 1] : a \in 0..1}

progress_call ==
    /\ \E sid \in OpenSessions, u \in ProgressArgs, ok \in DbOk :
         /\ sessions' = update_session_progress(sessions, sid, u, ok)
         /\ store_failures' = Failures(ok)
         /\ call' = [NoCall EXCEPT !.op = "progress", !.session_id = sid, !.ok = ok]
    /\ UNCHANGED <<clientAvailable, evaluations, nextSid, nextId, moved, requestState>>

\* the summaries the route passes to complete_session (routes.py 192-202),
\* here of a run of one candidate that was accepted or raised
SummaryArgs ==
    {[kind |-> "final", total_processed |-> 1, accepted |-> a, rejected |-> 0, errors |-> 1 - a] : a \in 0..1}

complete_call ==
    /\ \E sid \in OpenSessions, summary \in SummaryArgs, ok \in DbOk :
         /\ sessions' = complete_session(sessions, sid, summary, ok)
         /\ store_failures' = Failures(ok)
         /\ call' = [NoCall EXCEPT !.op = "complete", !.session_id = sid, !.ok = ok]
    /\ UNCHANGED <<clientAvailable, evaluations, nextSid, nextId, moved, requestState>>

\* a delete that leaves out the filter on the session id
delete_session_candidates_All(E, sid, ok) ==
    IF ok THEN {} ELSE E

\* DatabaseService.delete_session_candidates: delete().eq("session_id",
\* session_id), or (store error, swallowed) nothing
delete_session_candidates(E, sid, ok) ==
    IF ok THEN {r \in E : r.session_id # sid} ELSE E

\* DatabaseService.delete_session: the row is deleted and True returned, or
\* (store error) nothing and False
delete_session(S, sid, ok) ==
    IF ok THEN {s \in S : s.id # sid} ELSE S

\* outcome of the store call that follows one that went ok or not
DbOkAfter(ok) ==
    IF ~clientAvailable THEN {FALSE}
    ELSE IF Failures(ok) < MaxStoreFailures THEN BOOLEAN ELSE {TRUE}

\* DELETE /sessions/{session_id} (routes.py 767-790): the records of the
\* session, then the session; the response is a success when the second
\* call returned True
delete_call ==
    /\ nextId <= MaxRecordIds
    /\ \E sid \in OpenSessions, candidates_ok \in DbOk :
         \E session_ok \in DbOkAfter(candidates_ok) :
           /\ evaluations' = delete_session_candidates(evaluations, sid, candidates_ok)
           /\ sessions' = delete_session(sessions, sid, session_ok)
           /\ store_failures' = Failures(candidates_ok) + (IF session_ok \/ ~clientAvailable THEN 0 ELSE 1)
           /\ moved' = moved \cap {r.id : r \in delete_session_candidates(evaluations, sid, candidates_ok)}
           /\ call' = [NoCall EXCEPT !.op = "delete", !.session_id = sid, !.ok = session_ok, !.candidates_ok = candidates_ok]
    /\ UNCHANGED <<clientAvailable, nextSid, nextId, requestState>>

\* the saves of verdicts Accepted and Rejected: a delete looks at the
\* session id of a record, never at its verdict
TwoVerdicts == call'.outcome \in {"", "Accepted", "Rejected"}

\* the two tables under the saves and the session deletes of any requests
NextDelete ==
    /\ \/ create_session_call
       \/ save_call
       \/ delete_call
    /\ TwoVerdicts

SpecDelete == Init /\ [][NextDelete]_vars

\* table candidate_evaluations under the saves of any requests
NextStore ==
    \/ create_session_call
    \/ save_call

SpecStore == Init /\ [][NextStore]_vars

\* table evaluation_sessions under the session calls of any requests
NextSessions ==
    \/ create_session_call
    \/ progress_call
    \/ complete_call

SpecSessions == Init /\ [][NextSessions]_vars

(* --------------------------- specifications ---------------------------- *)
Step ==
    \/ \E j \in DOMAIN task : Acquire(j)
    \/ \E j \in DOMAIN task : FinishRoute(j)
    \/ \E j \in DOMAIN task : FinishBatched(j)
    \/ evaluate_candidates_gathered
    \/ evaluate_candidates_save
    \/ evaluate_candidates_complete
    \/ BatchBegin
    \/ BatchCount
    \/ BatchYield
    \/ BatchesDone

\* one request, over a table of up to MaxRows rows
Next ==
    \/ evaluate_candidates_entry
    \/ evaluate_candidates_parse(MaxRows)
    \/ process_candidates_in_batches(MaxRows)
    \/ Step

Spec == Init /\ [][Next]_vars

\* the runs in which the store is unusable throughout or takes every call,
\* and every evaluation returns Accepted or raises: whether a task gets and
\* gives back its permit depends on nothing else about its collaborators
\* than whether they return or raise
PlainRun ==
    /\ store_failures' = 0
    /\ \A j \in DOMAIN results' : results'[j].outcome \in {"pending", "Accepted", "absent", "Error"}

NextFair == Next /\ PlainRun

\* the event loop never idles while a coroutine of the request is ready,
\* and every awaited collaborator call returns or raises: as long as the
\* request has a step to take, it takes one
Fairness == WF_vars(Step /\ PlainRun)

\* one request under a fair event loop
SpecFair == Init /\ [][NextFair]_vars /\ Fairness

(* ---------------- create_comprehensive_evaluation ---------------------- *)
\* what one evaluation leaves alone
pipelineVars == <<clientAvailable, storeVars, reqVars, pc, loopVars, taskVars, countVars, routeVars, response, ghostVars, log, store_failures, call, moved>>

\* an append that starts from a new ProcessingResult
AddError_Resets(message) == [NewProcessingResult EXCEPT !.errors = <<message>>]

\* result.errors.append(message)
AddError(message) == [file_results EXCEPT !.errors = Append(@, message)]

\* the record of one "await safe_delete_file(file_path)"
DeleteCall(file_path, denials) ==
    delete_calls \cup {[path |-> file_path, existed |-> file_path \in temp_files,
                        attempts |-> UnlinkAttempts(temp_files, file_path, denials),
                        returned |-> (file_path \notin temp_files \/ denials < MaxAttempts)]}

\* candidate_processor.py 330-341 and process_candidate_files 86-102: the
\* row is looked up, the ProcessingResult built (its name must be a str)
\* and the two sub-tasks are handed to gather
create_comprehensive_evaluation_begin ==
    /\ epc = "idle"
    /\ \E cand \in Candidates :
         /\ candidate' = cand
         /\ IF ~cand.found
            THEN /\ epc' = "returned"
                 /\ comprehensive_result' = NotFoundResult
                 /\ UNCHANGED <<file_results, cv_pc, video_pc>>
            ELSE IF cand.name = NaN
            THEN /\ epc' = "raised"
                 /\ UNCHANGED <<comprehensive_result, file_results, cv_pc, video_pc>>
            ELSE /\ epc' = "files"
                 /\ file_results' = NewProcessingResult
                 /\ cv_pc' = "start"
                 /\ video_pc' = "start"
                 /\ UNCHANGED comprehensive_result
    /\ UNCHANGED <<criteria_ctx, temp_files, created_files, downloads, failed, delete_calls, aiVars, pipelineVars>>

\* _process_cv 110-121: the reference, its file id, the temporary file
process_cv_start ==
    /\ epc = "files"
    /\ cv_pc = "start"
    /\ IF candidate.cv_url = NaN
       THEN /\ cv_pc' = "done"
            /\ UNCHANGED <<file_results, temp_files, created_files, failed>>
       ELSE IF extract_file_id(candidate.cv_url) = NoFileId
       THEN /\ cv_pc' = "done"
            /\ file_results' = AddError("Could not extract CV file ID")
            /\ failed' = failed \cup {"cv id"}
            /\ UNCHANGED <<temp_files, created_files>>
       ELSE /\ cv_pc' = "download"
            /\ temp_files' = temp_files \cup {"cv.pdf"}
            /\ created_files' = created_files \cup {"cv.pdf"}
            /\ UNCHANGED <<file_results, failed>>
    /\ UNCHANGED <<epc, candidate, criteria_ctx, video_pc, downloads, delete_calls, aiVars, comprehensive_result, pipelineVars>>

\* _process_cv 124, 142-144: download_file returns True or False
process_cv_download ==
    /\ epc = "files"
    /\ cv_pc = "download"
    /\ downloads' = downloads \cup {"cv"}
    /\ \E ok \in BOOLEAN, denials \in Denials :
         IF ok
         THEN /\ cv_pc' = "pdf"
              /\ UNCHANGED <<file_results, temp_files, failed, delete_calls>>
         ELSE /\ cv_pc' = "done"
              /\ file_results' = AddError("Failed to download CV")
              /\ failed' = failed \cup {"cv download"}
              /\ temp_files' = safe_delete_file(temp_files, "cv.pdf", denials)
              /\ delete_calls' = DeleteCall("cv.pdf", denials)
    /\ UNCHANGED <<epc, candidate, criteria_ctx, video_pc, created_files, aiVars, comprehensive_result, pipelineVars>>

\* _process_cv 126-141: the PDF extraction; on its error text the file is
\* renamed for the DOCX attempt (os.rename may raise)
process_cv_pdf ==
    /\ epc = "files"
    /\ cv_pc = "pdf"
    /\ \E cv_text \in PdfOutcomes, renamed \in BOOLEAN, denials \in Denials :
         IF Contains(cv_text, "Error extracting PDF")
         THEN IF renamed
              THEN /\ cv_pc' = "docx"
                   /\ temp_files' = (temp_files \ {"cv.pdf"}) \cup {"cv.docx"}
                   /\ failed' = failed \cup {"cv pdf"}
                   /\ UNCHANGED <<file_results, delete_calls>>
              ELSE /\ cv_pc' = "done"
                   /\ file_results' = [file_results EXCEPT !.cv_text = RenameError]
                   /\ failed' = failed \cup {"cv pdf", "cv rename"}
                   /\ temp_files' = safe_delete_file(temp_files, "cv.pdf", denials)
                   /\ delete_calls' = DeleteCall("cv.pdf", denials)
         ELSE /\ cv_pc' = "done"
              /\ file_results' = [file_results EXCEPT !.cv_text = cv_text]
              /\ temp_files' = safe_delete_file(temp_files, "cv.pdf", denials)
              /\ delete_calls' = DeleteCall("cv.pdf", denials)
              /\ failed' = IF cv_text = PdfError THEN failed \cup {"cv pdf"} ELSE failed
    /\ UNCHANGED <<epc, candidate, criteria_ctx, video_pc, created_files, downloads, aiVars, comprehensive_result, pipelineVars>>

\* _process_cv 133-141: the DOCX extraction of the renamed file
process_cv_docx ==
    /\ epc = "files"
    /\ cv_pc = "docx"
    /\ \E cv_text \in DocxOutcomes, denials \in Denials :
         /\ file_results' = [file_results EXCEPT !.cv_text = cv_text]
         /\ failed' = IF cv_text = DocxError THEN failed \cup {"cv docx"} ELSE failed
         /\ temp_files' = safe_delete_file(temp_files, "cv.docx", denials)
         /\ delete_calls' = DeleteCall("cv.docx", denials)
    /\ cv_pc' = "done"
    /\ UNCHANGED <<epc, candidate, criteria_ctx, video_pc, created_files, downloads, aiVars, comprehensive_result, pipelineVars>>

\* _process_video 151-162; gather starts it after _process_cv has run up
\* to its first await
process_video_start ==
    /\ epc = "files"
    /\ video_pc = "start"
    /\ cv_pc # "start"
    /\ IF candidate.video_url = NaN
       THEN /\ video_pc' = "done"
            /\ UNCHANGED <<file_results, temp_files, created_files, failed>>
       ELSE IF extract_file_id(candidate.video_url) = NoFileId
       THEN /\ video_pc' = "done"
            /\ file_results' = AddError("Could not extract video file ID")
            /\ failed' = failed \cup {"video id"}
            /\ UNCHANGED <<temp_files, created_files>>
       ELSE /\ video_pc' = "download"
            /\ temp_files' = temp_files \cup {"video.mp4"}
            /\ created_files' = created_files \cup {"video.mp4"}
            /\ UNCHANGED <<file_results, failed>>
    /\ UNCHANGED <<epc, candidate, criteria_ctx, cv_pc, downloads, delete_calls, aiVars, comprehensive_result, pipelineVars>>

\* _process_video 165, 168-170
process_video_download ==
    /\ epc = "files"
    /\ video_pc = "download"
    /\ downloads' = downloads \cup {"video"}
    /\ \E ok \in BOOLEAN, denials \in Denials :
         IF ok
         THEN /\ video_pc' = "transcribe"
              /\ UNCHANGED <<file_results, temp_files, failed, delete_calls>>
         ELSE /\ video_pc' = "done"
              /\ file_results' = AddError("Failed to download video")
              /\ failed' = failed \cup {"video download"}
              /\ temp_files' = safe_delete_file(temp_files, "video.mp4", denials)
              /\ delete_calls' = DeleteCall("video.mp4", denials)
    /\ UNCHANGED <<epc, candidate, criteria_ctx, cv_pc, created_files, aiVars, comprehensive_result, pipelineVars>>

\* _process_video 166-167: transcribe_video returns the transcript or its
\* error text
process_video_transcribe ==
    /\ epc = "files"
    /\ video_pc = "transcribe"
    /\ \E transcript \in TranscribeOutcomes, denials \in Denials :
         /\ file_results' = [file_results EXCEPT !.video_transcript = transcript]
         /\ failed' = IF transcript = TranscribeError THEN failed \cup {"video transcription"} ELSE failed
         /\ temp_files' = safe_delete_file(temp_files, "video.mp4", denials)
         /\ delete_calls' = DeleteCall("video.mp4", denials)
    /\ video_pc' = "done"
    /\ UNCHANGED <<epc, candidate, criteria_ctx, cv_pc, created_files, downloads, aiVars, comprehensive_result, pipelineVars>>

\* candidate_processor.py 357-360 and ai_service.py 28-44: once both
\* sub-tasks are done, the criteria are looked up and the classifier is
\* called with them
evaluate_candidate_call ==
    /\ epc = "files"
    /\ cv_pc = "done"
    /\ video_pc = "done"
    /\ \E ctx \in Contexts, resp \in Responses :
         /\ criteria_ctx' = ctx
         /\ IF get_user_criteria(ctx, clientAvailable).raised
            THEN /\ classifier_calls' = classifier_calls
                 /\ classifier_response' = NoClassifierResponse
            ELSE /\ classifier_calls' = Append(classifier_calls, get_user_criteria(ctx, clientAvailable).criteria)
                 /\ classifier_response' = resp
         /\ evaluation_result' = evaluate_candidate(get_user_criteria(ctx, clientAvailable), resp)
    /\ epc' = "merge"
    /\ UNCHANGED <<candidate, fileVars, comprehensive_result, pipelineVars>>

\* candidate_processor.py 362-424: evaluation_result.get(...) needs a dict
create_comprehensive_evaluation_return ==
    /\ epc = "merge"
    /\ IF evaluation_result.kind = "object"
       THEN /\ epc' = "returned"
            /\ comprehensive_result' = Merged(evaluation_result, file_results)
       ELSE /\ epc' = "raised"
            /\ UNCHANGED comprehensive_result
    /\ UNCHANGED <<candidate, criteria_ctx, fileVars, aiVars, pipelineVars>>

NextEvaluation ==
    \/ create_comprehensive_evaluation_begin
    \/ process_cv_start
    \/ process_cv_download
    \/ process_cv_pdf
    \/ process_cv_docx
    \/ process_video_start
    \/ process_video_download
    \/ process_video_transcribe
    \/ evaluate_candidate_call
    \/ create_comprehensive_evaluation_return

\* one evaluation, under every behaviour of its collaborators
SpecEvaluation == Init /\ [][NextEvaluation]_vars

(* ------------------------------- claims -------------------------------- *)
\* evaluations that hold a permit of the semaphore
InFlight == Cardinality({j \in DOMAIN task : task[j] = "running"})

\* the current request is over
RunEnded == pc \in {"returned", "done"}

\* C1: in every state of a run, on either path, at most 3 candidate
\* evaluations have acquired the semaphore and not yet released it
C1_AtMostThreeInFlight == InFlight <= 3

\* three evaluations in flight while a fourth candidate waits
C1_Witness == InFlight = 3 /\ \E j \in DOMAIN task : task[j] = "waiting"

\* C2: every row is handed to at most one batch and attempted at most once,
\* a row with a blank email never; when the run ends every row with an
\* email has been in exactly one batch and has had exactly one attempt
C2_EachRowOneBatchOneAttempt ==
    /\ \A k \in DOMAIN attempts :
         /\ placed[k] <= 1
         /\ attempts[k] <= placed[k]
         /\ data.rows[k] = NaN => placed[k] = 0
    /\ RunEnded =>
         \A k \in DOMAIN attempts :
            data.rows[k] # NaN => placed[k] = 1 /\ attempts[k] = 1

\* a batched run of three candidates and a blank row, cut in batches of 2,
\* has ended
C2_Witness ==
    /\ pc = "done"
    /\ batch_size = 2
    /\ Len(emails) = 3
    /\ \E k \in DOMAIN attempts : data.rows[k] = NaN
    /\ \A k \in DOMAIN attempts : data.rows[k] # NaN => attempts[k] = 1

\* the save loop (route) or the task itself (batched) is past task j
PastSaving(j) == task[j] = "done" /\ (path = "batched" \/ pc = "returned")

\* C3: a candidate whose evaluation raised has an Evaluation with outcome
\* Error persisted, the error total counts it, and every other candidate
\* is still evaluated
C3_RaisedIsPersistedAsError ==
    /\ \A j \in DOMAIN task :
         PastSaving(j) /\ results[j].error => persisted[j] = <<"Error">>
    /\ response.kind = "final" => response.errors >= raised_count
    /\ pc \in {"yield", "loop", "done"} => error_count >= raised_count
    /\ RunEnded =>
         \A k \in DOMAIN attempts : data.rows[k] # NaN => attempts[k] = 1

\* rows of candidate_evaluations that carry an email
RecordsOf(email) == ExistingByEmail(evaluations, email)

\* C4: after any sequence of save_candidate_evaluation calls, from any
\* sessions, the store holds at most one record per email
C4_AtMostOneRecordPerEmail ==
    \A email \in Emails : Cardinality(RecordsOf(email)) <= 1

\* a save found its email present, under another session, next to a record
\* of another email, and the store took it
C4_Witness ==
    /\ call.op = "save"
    /\ call.ok
    /\ call.existing # NoRecord
    /\ call.existing.session_id # call.session_id
    /\ Cardinality(evaluations) = 2

\* C5: when a save finds the email stored by an earlier run, the one record
\* of that email afterwards has the verdict and the session id of this save
\* and the record id it had before
C5_RerunOverwritesInPlace ==
    (call.op = "save" /\ call.ok /\ call.existing # NoRecord) =>
        RecordsOf(call.email) =
            {[id |-> call.existing.id, session_id |-> call.session_id,
              email |-> call.email, outcome |-> call.outcome]}

\* the record session 1 stored as Accepted was saved again by session 2 as
\* Rejected
C5_Witness ==
    /\ call.op = "save"
    /\ call.ok
    /\ call.existing.session_id = 1
    /\ call.existing.outcome = "Accepted"
    /\ call.session_id = 2
    /\ call.outcome = "Rejected"

\* C6: every attempt results in exactly one persisting call, never zero
\* (also when it ended in an error) and never two
C6_OnePersistingCallPerAttempt ==
    \A j \in DOMAIN task :
       /\ Len(persisted[j]) <= 1
       /\ PastSaving(j) => Len(persisted[j]) = 1

\* C7: in every batch summary and in the final response, accepted +
\* rejected + errors is the number of candidates processed so far
C7_SummaryAddsUp ==
    response.kind \in {"batch", "final"} =>
        response.accepted + response.rejected + response.errors = response.total_processed

\* the rows of evaluation_sessions that carry an id
SessionsOf(S, sid) == {s \in S : s.id = sid}

\* the status of every session row after a step is the one it had, or an
\* edge away from it; a row that is new has the starting status
StatusFollows(start, edges) ==
    \A s2 \in sessions' :
       IF SessionsOf(sessions, s2.id) = {}
       THEN s2.status = start
       ELSE \A s \in SessionsOf(sessions, s2.id) :
               s2.status = s.status \/ <<s.status, s2.status>> \in edges

SessionCompleted(S) ==
    \A s \in SessionsOf(S, session_id) :
       s.status = "completed" /\ s.completed_at /\ s.progress_percentage = 100

\* C9: when the route returns after all candidates were processed, the
\* session is completed, its completion time set and its progress 100,
\* whatever number of candidates ended in error (the store having taken
\* the call); no session is ever failed
C9_CompletedWhateverTheErrors ==
    [][/\ (pc' = "returned" /\ store_failures' = store_failures) => SessionCompleted(sessions')
       /\ (pc' = "returned" /\ store_failures' = 0) => SessionsOf(sessions', session_id') # {}
       /\ \A s \in sessions' : s.status # "failed"]_vars

\* a run of two candidates that both raised has returned, its session
\* completed
C9_Witness ==
    /\ pc = "returned"
    /\ Len(results) >= 2
    /\ \A j \in DOMAIN results : results[j].error
    /\ \E s \in SessionsOf(sessions, session_id) :
         s.status = "completed" /\ s.error_count = Len(results)

\* C10: once the request that created a session has returned, with success
\* or with any rejection, the session is completed or failed
C10_SessionFinalizedOnReturn ==
    pc \in {"returned", "rejected"} =>
        \A s \in SessionsOf(sessions, session_id) : s.status \in {"completed", "failed"}

\* C11: when the session record could not be created at the start of a
\* request, no candidate evaluation is started
C11_NoSessionNoEvaluation ==
    (path = "route" /\ SessionsOf(sessions, session_id) = {}) =>
        \A k \in DOMAIN attempts : attempts[k] = 0

\* an upload that is empty, lacks the email column or has no email at all
BadTable(csv) ==
    \/ csv.rows = <<>>
    \/ csv.kind = "nocolumn"
    \/ \A k \in DOMAIN csv.rows : csv.rows[k] = NaN

\* C12: a request whose table is empty, lacks the 'Email address' column or
\* has no non-null email is rejected, and then no candidate evaluation has
\* been started and no Evaluation record has been written
C12_BadTableRejectedBeforeProcessing ==
    (path = "route" /\ pc # "read" /\ BadTable(data)) =>
        /\ pc = "rejected"
        /\ task = <<>>
        /\ attempts = <<>>
        /\ evaluations = {}

\* a table of two rows, both with a blank email, was rejected after its
\* session was created
C12_Witness ==
    /\ pc = "rejected"
    /\ session_id # 0
    /\ data.kind = "table"
    /\ Len(data.rows) = 2

\* the classifier's response is not an object with outcome, score and
\* rationale, or the call failed
InvalidOutput(resp) ==
    \/ resp.kind \in {"transport", "notjson", "nonobject"}
    \/ resp.kind = "object" /\ resp.keys # VerdictKeys

\* a rationale that says what went wrong
NamesFailure(rationale) ==
    \/ Contains(rationale, "Failed to parse AI evaluation")
    \/ Contains(rationale, "Evaluation error")

\* the evaluation is over, with a result or an exception
EvaluationEnded == epc \in {"returned", "raised"}

\* C13: for every classifier response that is not valid structured output
\* and every transport failure, the evaluation returns outcome Error,
\* score 0.0 and a rationale naming the failure, and raises nothing
C13_InvalidOutputBecomesError ==
    (EvaluationEnded /\ InvalidOutput(classifier_response)) =>
        /\ epc = "returned"
        /\ comprehensive_result.outcome = "Error"
        /\ comprehensive_result.score = 0
        /\ NamesFailure(comprehensive_result.rationale)

\* C14: create_comprehensive_evaluation never raises, and its result has an
\* email and either a verdict or an error key
C14_NeverRaises ==
    /\ epc # "raised"
    /\ epc = "returned" =>
         /\ comprehensive_result.email # ""
         /\ comprehensive_result.error \/ comprehensive_result.outcome # "absent"

\* the user of the run has an active, non-empty override in a store that
\* was given and is available
HasOverride(ctx) ==
    /\ ctx.user_id # ""
    /\ ctx.db_service
    /\ clientAvailable
    /\ ctx.active.present
    /\ ctx.active.content # ""

\* C15: the classifier is invoked with the user's override when there is
\* an active non-empty one, and with the default criteria otherwise
C15_CriteriaResolved ==
    evaluation_result.kind # "none" =>
        classifier_calls = <<IF HasOverride(criteria_ctx) THEN criteria_ctx.active.content ELSE DefaultCriteria>>

\* the extraction errors of the candidate: a PDF failure alone is none,
\* the DOCX attempt decides
ExtractionErrors ==
    (failed \ {"cv pdf", "cv docx", "cv rename"}) \cup
    (IF failed \cap {"cv docx", "cv rename"} # {} THEN {"cv extraction"} ELSE {})

\* C16: files_processed_successfully is true if and only if no identifier
\* parse, download, document extraction (both formats) or transcription
\* failed for the candidate
C16_FlagIffNoExtractionError ==
    (epc = "returned" /\ ~comprehensive_result.error) =>
        (comprehensive_result.files_processed_successfully <=> ExtractionErrors = {})

\* C17: a candidate whose document cannot be downloaded gets an Evaluation
\* with files_processed_successfully false and a non-empty error list, and
\* the classifier is invoked exactly once for them
C17_DownloadFailureTolerated ==
    (epc = "returned" /\ "cv download" \in failed) =>
        /\ ~comprehensive_result.files_processed_successfully
        /\ comprehensive_result.processing_errors # <<>>
        /\ Len(classifier_calls) = 1

\* messages that _process_cv appends to the error list
CvMessages == {"Could not extract CV file ID", "Failed to download CV"}

\* the PDF extraction failed and the DOCX extraction of the renamed file
\* succeeded
FallbackSucceeded ==
    /\ cv_pc = "done"
    /\ "cv pdf" \in failed
    /\ failed \cap {"cv docx", "cv rename"} = {}

\* C18: when the PDF extraction fails and the DOCX extraction succeeds, the
\* candidate's document text is the DOCX text, and nothing of the first
\* failure is in the text, in the error list or in the result
C18_FallbackTextNoError ==
    FallbackSucceeded =>
        /\ file_results.cv_text = <<"docx text">>
        /\ ~Contains(file_results.cv_text, "Error extracting PDF")
        /\ \A i \in DOMAIN file_results.errors : file_results.errors[i] \notin CvMessages
        /\ (epc = "returned" /\ failed = {"cv pdf"}) =>
              /\ comprehensive_result.cv_text = <<"docx text">>
              /\ comprehensive_result.processing_errors = <<>>
              /\ comprehensive_result.files_processed_successfully

\* an evaluation returned whose document was read through the fallback
C18_Witness ==
    /\ epc = "returned"
    /\ failed = {"cv pdf"}
    /\ comprehensive_result.cv_text = <<"docx text">>
    /\ comprehensive_result.outcome = "Accepted"

\* C19: when the extraction fails as PDF and as DOCX, the error text holds
\* both failures
C19_BothFailuresInErrorText ==
    (cv_pc = "done" /\ {"cv pdf", "cv docx"} \subseteq failed) =>
        /\ Contains(file_results.cv_text, "Error extracting PDF")
        /\ Contains(file_results.cv_text, "Error extracting DOCX")

\* C20: for a document or video reference that holds no identifier, no
\* temporary file is created and no download is attempted
C20_NoIdentifierNoDownload ==
    /\ (candidate.found /\ candidate.cv_url \notin DriveLinks) =>
          /\ created_files \cap {"cv.pdf", "cv.docx"} = {}
          /\ temp_files \cap {"cv.pdf", "cv.docx"} = {}
          /\ "cv" \notin downloads
    /\ (candidate.found /\ candidate.video_url \notin DriveLinks) =>
          /\ "video.mp4" \notin created_files
          /\ "video.mp4" \notin temp_files
          /\ "video" \notin downloads

\* an evaluation returned for a candidate whose CV cell is no link and
\* whose video was downloaded
C20_Witness ==
    /\ epc = "returned"
    /\ candidate.cv_url = PlainText
    /\ candidate.video_url = OpenLink
    /\ "Could not extract CV file ID" \in {comprehensive_result.processing_errors[i] : i \in DOMAIN comprehensive_result.processing_errors}
    /\ downloads = {"video"}

\* messages that _process_video appends to the error list
VideoMessages == {"Could not extract video file ID", "Failed to download video"}

\* C21: when a CV or video reference is absent, or present without an
\* identifier in it, the sub-task ends without adding anything to the
\* candidate's error list
C21_NoIdentifierNoError ==
    /\ (cv_pc = "done" /\ candidate.cv_url \notin DriveLinks) =>
          \A i \in DOMAIN file_results.errors : file_results.errors[i] \notin CvMessages
    /\ (video_pc = "done" /\ candidate.video_url \notin DriveLinks) =>
          \A i \in DOMAIN file_results.errors : file_results.errors[i] \notin VideoMessages

\* the temporary files of the two sub-tasks
CvFiles == {"cv.pdf", "cv.docx"}
VideoFiles == {"video.mp4"}

\* a safe_delete_file call was made on one of the files while it was on disk
DeleteAttempted(files) ==
    \E c \in delete_calls : c.path \in files /\ c.existed /\ c.attempts >= 1

\* every file of the set still on disk met a PermissionError at each of the
\* attempts of a delete
LeftOnlyWhenDenied(files) ==
    \A f \in temp_files \cap files :
       \E c \in delete_calls : c.path = f /\ c.attempts = MaxAttempts /\ ~c.returned

\* C22: when a CV or video sub-task that created a temporary file has
\* ended, on any of its paths, a delete of the file was attempted under the
\* path it had on disk, with at most 3 attempts; a file is left on disk
\* only when each attempt was refused, and the evaluation never raises on
\* account of a delete
C22_TempFileDeleteAttempted ==
    /\ (cv_pc = "done" /\ created_files \cap CvFiles # {}) =>
          DeleteAttempted(CvFiles) /\ LeftOnlyWhenDenied(CvFiles)
    /\ (video_pc = "done" /\ created_files \cap VideoFiles # {}) =>
          DeleteAttempted(VideoFiles) /\ LeftOnlyWhenDenied(VideoFiles)
    /\ \A c \in delete_calls : c.attempts <= 3
    /\ (epc = "raised" /\ candidate.name # NaN) => evaluation_result.kind = "nonobject"

\* an evaluation returned after the renamed CV file met a PermissionError
\* at each of the three attempts to delete it and stayed on disk
C22_Witness ==
    /\ epc = "returned"
    /\ "cv pdf" \in failed
    /\ temp_files = {"cv.docx"}
    /\ \E c \in delete_calls : c.path = "cv.docx" /\ c.attempts = 3 /\ ~c.returned

\* a candidate task enters its evaluation in this step
TaskStarts ==
    \E j \in DOMAIN task' :
       task'[j] = "running" /\ (j \notin DOMAIN task \/ task[j] # "running")

\* update_session_progress was called for batch n of this run
ProgressIssued(n) ==
    \E i \in DOMAIN log : log[i].kind = "progress" /\ log[i].batch = n

\* the counters of the session row of this run
SessionCounters(S) ==
    {<<s.processed_candidates, s.accepted_count, s.rejected_count, s.error_count>> : s \in SessionsOf(S, session_id)}

\* C23: in a batched run a task of a batch starts only when every task of
\* the earlier batches has ended and been counted and the progress update
\* of every earlier batch has been issued; the next batch is cut only then;
\* and the counters of the run and of its session are written only while
\* no task is in flight
C23_BatchesStrictlySequential ==
    [][/\ (path = "batched" /\ TaskStarts) =>
             /\ processed_count = batch_idx
             /\ \A n \in 1..(batch_number - 1) : ProgressIssued(n)
       /\ (path = "batched" /\ batch_number >= 1 /\ batch_number' # batch_number) =>
             AllDone /\ ProgressIssued(batch_number)
       /\ (path = "batched" /\ countVars' # countVars) =>
             AllDone /\ InFlight = 0 /\ InFlight' = 0
       /\ (path = "batched" /\ session_id' = session_id /\ SessionCounters(sessions') # SessionCounters(sessions)) =>
             AllDone /\ InFlight = 0 /\ InFlight' = 0]_vars

\* a task of the second batch is running after a first batch of two
\* candidates was counted
C23_Witness ==
    /\ path = "batched"
    /\ pc = "gather"
    /\ batch_number = 2
    /\ batch_size = 2
    /\ processed_count = 2
    /\ InFlight >= 1

\* the session row shows the counters and the percentage of the run
ShowsProgress(s) ==
    /\ s.processed_candidates = processed_count
    /\ s.accepted_count = accepted_count
    /\ s.rejected_count = rejected_count
    /\ s.error_count = error_count
    /\ s.progress_percentage = Percentage(processed_count, Len(emails))

\* C24: after each batch of a run whose store calls all went through, the
\* session row has the cumulative processed, accepted, rejected and error
\* counts and a progress percentage of processed / total x 100
C24_SessionShowsProgress ==
    (path = "batched" /\ pc = "yield" /\ clientAvailable /\ store_failures = 0) =>
        /\ SessionsOf(sessions, session_id) # {}
        /\ \A s \in SessionsOf(sessions, session_id) : ShowsProgress(s)

IsEvent(entry) == entry.kind = "event"

\* the events the generator has yielded so far
Events == SelectSeq(log, IsEvent)

\* the batches range(0, total, batch_size) runs through
Batches == (Len(emails) + batch_size - 1) \div batch_size

\* C25: the events of a batched run are those of batches 1, 2, ... in that
\* order, one per batch, each yielded right after the progress update of
\* its batch, with the number of candidates of the batches so far as its
\* processed count; when the run ends there is one event per batch and the
\* last one has the total number of candidates
C25_OneEventPerBatchInOrder ==
    path = "batched" =>
        /\ \A i \in DOMAIN Events :
              /\ Events[i].batch = i
              /\ Events[i].processed = Min(i * batch_size, Len(emails))
        /\ \A p \in DOMAIN log :
              IsEvent(log[p]) =>
                 /\ p > 1
                 /\ log[p - 1] = [log[p] EXCEPT !.kind = "progress"]
        /\ pc = "done" =>
              /\ Len(Events) = Batches
              /\ Events # <<>> => Events[Len(Events)].processed = Len(emails)

\* a run of three candidates in batches of two has ended with two events
C25_Witness ==
    /\ path = "batched"
    /\ pc = "done"
    /\ batch_size = 2
    /\ Len(emails) = 3
    /\ Len(Events) = 2
    /\ Events[2].processed = 3

\* both sub-tasks of process_candidate_files have ended
BothDone == cv_pc = "done" /\ video_pc = "done"

\* a sub-task whose reference is a Drive link got as far as its download
NotCancelled ==
    /\ candidate.cv_url \in DriveLinks => "cv" \in downloads
    /\ candidate.video_url \in DriveLinks => "video" \in downloads

\* C26: the criteria lookup and the classifier call of a candidate happen
\* only when the CV and the video sub-task have both ended; whatever
\* failed in one sub-task, the other ran through its download, the text a
\* finished sub-task extracted is not changed by the other one, and both
\* texts are in the result
C26_JoinBeforeClassifier ==
    [][/\ (classifier_calls' # classifier_calls \/ evaluation_result' # evaluation_result) => BothDone
       /\ epc' = "merge" => NotCancelled'
       /\ (epc = "files" /\ cv_pc = "done") => file_results'.cv_text = file_results.cv_text
       /\ (epc = "files" /\ video_pc = "done") => file_results'.video_transcript = file_results.video_transcript
       /\ (epc' = "returned" /\ ~comprehensive_result'.error) =>
             /\ comprehensive_result'.cv_text = file_results.cv_text
             /\ comprehensive_result'.video_transcript = file_results.video_transcript]_vars

\* an evaluation returned with the transcript of the video, which was
\* extracted before the download of the CV failed
C26_Witness ==
    /\ epc = "returned"
    /\ failed = {"cv download"}
    /\ comprehensive_result.video_transcript = <<"transcript">>
    /\ comprehensive_result.processing_errors = <<"Failed to download CV">>
    /\ Len(classifier_calls) = 1

\* task j ends in this step
Finishes(j) == j \in DOMAIN task /\ task[j] = "running" /\ task'[j] = "done"

\* the store did not take the save of the task that ends in this step
SaveFailed == store_failures' > store_failures \/ ~clientAvailable

\* the emails of the run that have no record in the store
Unsaved == {e \in {emails[i].email : i \in DOMAIN emails} : RecordsOf(e) = {}}

\* C27: when the store fails the save of a candidate of a batched run, the
\* task ends with the result of its own evaluation (an error result only
\* if the evaluation raised), the other tasks are untouched and the run
\* goes on; each batch counts its results under their verdicts; and when
\* the run ends every candidate was evaluated once, all were counted, and
\* at most as many emails lack a record as store calls failed
C27_SaveFailureDoesNotPropagate ==
    [][/\ path = "batched" =>
             \A j \in DOMAIN task :
                (Finishes(j) /\ SaveFailed) =>
                   /\ pc' = "gather"
                   /\ evaluations' = evaluations
                   /\ results'[j].error <=> raised_count' = raised_count + 1
                   /\ persisted'[j] = <<results'[j].outcome>>
                   /\ \A k \in DOMAIN task \ {j} : task'[k] = task[k] /\ results'[k] = results[k]
       /\ (path = "batched" /\ pc = "gather" /\ pc' = "yield") =>
             /\ accepted_count' = accepted_count + Cardinality({j \in DOMAIN results : ~results[j].error /\ results[j].outcome = "Accepted"})
             /\ rejected_count' = rejected_count + Cardinality({j \in DOMAIN results : ~results[j].error /\ results[j].outcome = "Rejected"})
             /\ processed_count' = processed_count + Len(batch_emails)
       /\ (path' = "batched" /\ pc' = "done") =>
             /\ \A k \in DOMAIN attempts' : data'.rows[k] # NaN => attempts'[k] = 1
             /\ processed_count' = Len(emails')
             /\ clientAvailable' => Cardinality(Unsaved') <= store_failures']_vars

\* a run of two candidates has ended with both counted as accepted, its
\* session holding the counts, and the record of one of them missing
\* because the store failed its save
C27_Witness ==
    /\ path = "batched"
    /\ pc = "done"
    /\ clientAvailable
    /\ store_failures = 1
    /\ Len(emails) = 2
    /\ accepted_count = 2
    /\ Cardinality(evaluations) = 1
    /\ Cardinality(Unsaved) = 1
    /\ \E s \in SessionsOf(sessions, session_id) : s.processed_candidates = 2

\* the one record of the email has the verdict and the session of the save
HoldsSave(E, email, outcome, sid) ==
    /\ Cardinality(ExistingByEmail(E, email)) = 1
    /\ \A r \in ExistingByEmail(E, email) : r.outcome = outcome /\ r.session_id = sid

\* C28: the select and the insert or update of a save are one step of the
\* process, so whatever the order in which the tasks of a batch reach their
\* saves, also with the same email twice in the batch, the store never has
\* two records of an email, and after each save that the store took the
\* one record of its email holds what that save wrote
C28_SaveIsOneStep ==
    [][/\ \A email \in Emails : Cardinality(ExistingByEmail(evaluations', email)) <= 1
       /\ path = "batched" =>
             \A j \in DOMAIN task :
                (Finishes(j) /\ ~SaveFailed) =>
                   HoldsSave(evaluations', batch_emails[j].email, persisted'[j][1], session_id)]_vars

\* a batch held the same email twice; the second task saved Rejected
\* first, the first task saved Accepted last, and the one record of the
\* email is Accepted
C28_Witness ==
    /\ path = "batched"
    /\ pc = "yield"
    /\ clientAvailable
    /\ store_failures = 0
    /\ Len(batch_emails) = 2
    /\ batch_emails[1].email = batch_emails[2].email
    /\ persisted[1] = <<"Accepted">>
    /\ persisted[2] = <<"Rejected">>
    /\ Cardinality(evaluations) = 1
    /\ \A r \in evaluations : r.outcome = "Accepted" /\ r.id = 1

\* task j of the current batch waits for the semaphore / holds a permit
Waits(j) == j \in DOMAIN task /\ task[j] = "waiting"
Holds(j) == j \in DOMAIN task /\ task[j] = "running"

\* C29: under a fair event loop and collaborators that return, on either
\* path: the permits out and the permits free are 3 at all times and all 3
\* are free when the join of a batch returns; every waiting task comes to
\* hold a permit; every task that holds one ends and gives it back; and
\* every batch, of any number of candidates, gets past its join
C29_EveryBatchTerminates ==
    /\ [](semaphore + InFlight = SemaphoreSize)
    /\ []((pc \in {"saving", "yield"}) => (AllDone /\ semaphore = SemaphoreSize))
    /\ \A j \in 1..MaxRows : Waits(j) ~> Holds(j)
    /\ \A j \in 1..MaxRows : Holds(j) ~> (j \in DOMAIN task /\ task[j] = "done")
    /\ (pc = "gather") ~> (pc \in {"saving", "yield"})
    /\ (pc \in {"gather", "loop", "saving", "yield"}) ~> RunEnded

\* a batch of four candidates, one of them waiting for a permit while one
\* of the first three has raised and given its permit back
C29_Witness ==
    /\ pc = "gather"
    /\ Len(task) = 4
    /\ task[4] = "waiting"
    /\ semaphore = 1
    /\ \E j \in 1..3 : task[j] = "done" /\ results[j].error

\* the step is a delete of session sid that the store took in both calls
Deleted(sid) ==
    call'.op = "delete" /\ call'.session_id = sid /\ call'.ok /\ call'.candidates_ok

\* C30: a session delete removes the records whose session id is, at that
\* time, the one of the session, and no other: after a delete the store
\* took, no record and no session row has the session's id; whatever the
\* store did, no record is added or changed, and every record under
\* another session id, also one that first belonged to the deleted session
\* and was saved again by a later run, stays as it was
C30_DeleteRemovesCurrentRecordsOnly ==
    [][\A sid \in OpenSessions :
          /\ (call'.op = "delete" /\ call'.session_id = sid) =>
                /\ evaluations' \subseteq evaluations
                /\ \A r \in evaluations : r.session_id # sid => r \in evaluations'
                /\ call'.candidates_ok => evaluations' = {r \in evaluations : r.session_id # sid}
          /\ Deleted(sid) =>
                /\ \A r \in evaluations' : r.session_id # sid
                /\ SessionsOf(sessions', sid) = {}]_vars

\* session 1 was deleted after session 2 had saved one of its candidates
\* again: the record, now of session 2, is still there
C30_Witness ==
    /\ call.op = "delete"
    /\ call.session_id = 1
    /\ call.ok
    /\ call.candidates_ok
    /\ SessionsOf(sessions, 1) = {}
    /\ \E r \in evaluations : r.id \in moved /\ r.session_id = 2

====
